---- MODULE Spec2Model ----
(***************************************************************************)
(* Model of services/ddclient/ddclient.go: the dynamic DNS updater.        *)
(*                                                                         *)
(* A string is a sequence of tokens; a token is one character or one       *)
(* literal chunk of a format string.  The empty string is << >>.           *)
(* Time is counted in seconds.                                             *)
(***************************************************************************)
EXTENDS Integers, Sequences, FiniteSets, TLC

\* ---------------------------------------------------------------- bounds
MaxBody == 3          \* longest check-IP response body, in characters
MaxIPs == 2           \* longest resolved address list
MaxFrequency == 61    \* largest configured frequency, in seconds
MaxCycles == 2        \* the cycle counter saturates here
MaxCycleTime == 1     \* longest time the calls of one cycle take, in seconds

\* ------------------------------------------------------- program constants
DefaultWait == 60

ddns_service == <<"domains.google.com">>
DefaultCheckipUrl == <<"https://domains.google.com/checkip">>
DefaultDnsServer == <<"8.8.8.8:53">>

\* ------------------------------------------------------------ input sets
Empty == << >>
WhiteSpace == {" ", "\n"}
Chars == {"1", "\n"}
Addresses == {<<"1">>, <<"1", "1">>}
Hostnames == {Empty, <<"h">>}
Usernames == {Empty, <<"u">>}
Passwords == {Empty, <<"p">>}
CheckipUrls == {Empty, <<"http://c">>}
DnsServers == {Empty, <<"9.9.9.9:53">>}
Frequencies == {0, 1, DefaultWait - 1, MaxFrequency}

SeqsUpTo(S, n) == UNION {[1..k -> S] : k \in 0..n}
Bodies == SeqsUpTo(Chars, MaxBody)
AddressLists == SeqsUpTo(Addresses, MaxIPs)

NoFrontend ==
    [Frontend |-> FALSE, DynDns |-> FALSE, Hostname |-> Empty,
     DdnsUsername |-> Empty, DdnsPassword |-> Empty, Frequency |-> 0,
     CheckipUrl |-> Empty, DnsServer |-> Empty]

BaseConfig ==
    [Frontend |-> TRUE, DynDns |-> TRUE, Hostname |-> <<"h">>,
     DdnsUsername |-> <<"u">>, DdnsPassword |-> <<"p">>, Frequency |-> 1,
     CheckipUrl |-> Empty, DnsServer |-> Empty]

\* Every combination of hostname and credentials, every frequency, every
\* check-IP URL and every DNS server, each with the rest of the base
\* configuration.
Configs ==
    {NoFrontend}
    \cup {[NoFrontend EXCEPT !.Frontend = TRUE, !.Hostname = h] : h \in Hostnames}
    \cup {[BaseConfig EXCEPT !.Hostname = h, !.DdnsUsername = u,
                             !.DdnsPassword = p] :
             h \in Hostnames, u \in Usernames, p \in Passwords}
    \cup {[BaseConfig EXCEPT !.Frequency = f] : f \in Frequencies}
    \cup {[BaseConfig EXCEPT !.CheckipUrl = c] : c \in CheckipUrls}
    \cup {[BaseConfig EXCEPT !.DnsServer = d] : d \in DnsServers}

\* ----------------------------------------------------------------- state
VARIABLES
    config_obj,       \* the configuration handed to StartDynDNSService
    ctxDone,          \* ctx.Done() is closed
    wg,               \* the sync.WaitGroup counter
    starter,          \* position of StartDynDNSService
    result,           \* the DynDNSService built by StartDynDNSService
    pc,               \* position of the background goroutine
    min_update_wait,  \* Start's local
    body,             \* the bytes GetExternalIp read from the response
    externalIP,       \* updateIP's local
    hostnameIPs,      \* updateIP's local
    err,              \* updateIP's local: the error of the last call
    calls,            \* calls issued by the cycle in progress
    response,         \* what the cycle's last call got back
    sinceUpdate,      \* seconds since the last call of UpdateDDNSRecord, -1
                      \* before the first, counted up to min_update_wait
    waited,           \* seconds since the select's time.After was created
    sinceStart,       \* seconds since the last cycle began
    took,             \* seconds the last completed cycle took
    cancelledAt,      \* where the goroutine stood when the context was cancelled
    ncycles,          \* cycles begun so far (saturating)
    nwaits,           \* selects ended by the timer so far, counted up to
                      \* MaxCycles - 1
    lastCycle         \* how the last completed cycle ended

vars == <<config_obj, ctxDone, wg, starter, result, pc, min_update_wait,
          body, externalIP, hostnameIPs, err, calls, response, waited,
          sinceStart, took, sinceUpdate,
          cancelledAt, ncycles, nwaits, lastCycle>>

NoService == [external_ip_url |-> Empty, dns_server |-> Empty]
None == <<"<unset>">>

\* --------------------------------------------------------- pure functions
RECURSIVE TrimLeft(_)
TrimLeft(s) ==
    IF s # Empty /\ Head(s) \in WhiteSpace THEN TrimLeft(Tail(s)) ELSE s

RECURSIVE TrimRight(_)
TrimRight(s) ==
    IF s # Empty /\ s[Len(s)] \in WhiteSpace
    THEN TrimRight(SubSeq(s, 1, Len(s) - 1)) ELSE s

TrimSpace(s) == TrimRight(TrimLeft(s))

Inc(n) == IF n < MaxCycles THEN n + 1 ELSE n


\* ------------------------------------------------- StartDynDNSService parts
\* The guard of StartDynDNSService: the service is not started.
NotConfigured(cfg) ==
    \/ ~cfg.Frontend
    \/ ~cfg.DynDns
    \/ cfg.DdnsUsername = Empty
    \/ cfg.Hostname = Empty

\* The DynDNSService built from the configuration, with its defaults.
\* Mutant: unset endpoints are left unset.
NewServiceNoDefaults(cfg) ==
    [external_ip_url |-> cfg.CheckipUrl, dns_server |-> cfg.DnsServer]

NewService(cfg) ==
    [external_ip_url |->
        IF cfg.CheckipUrl = Empty THEN DefaultCheckipUrl ELSE cfg.CheckipUrl,
     dns_server |->
        IF cfg.DnsServer = Empty THEN DefaultDnsServer ELSE cfg.DnsServer]

\* ------------------------------------------------------------ Start parts
\* The nil checks opening both Start and updateIP.
NoDynDns(cfg) == ~cfg.Frontend \/ ~cfg.DynDns

\* Mutant: the zero frequency is not replaced by the default.
MinUpdateWaitNoDefault(frequency) == frequency

MinUpdateWait(frequency) ==
    IF frequency = 0 THEN DefaultWait ELSE frequency

\* ---------------------------------------------------------- updateIP parts
HttpGet(url) ==
    [op |-> "GetExternalIp", net |-> "http", to |-> url, arg |-> Empty,
     user |-> Empty, pw |-> Empty]

LookupHost(server, fqdn) ==
    [op |-> "GetCurrentDDNSIp", net |-> "udp", to |-> server, arg |-> fqdn,
     user |-> Empty, pw |-> Empty]

UpdateRequest(url, user, pw) ==
    [op |-> "UpdateDDNSRecord", net |-> "http", to |-> url, arg |-> Empty,
     user |-> user, pw |-> pw]

\* What the transport and the body read of the check-IP request can do.
GetOutcomes == {"ok", "transport_error", "read_error", "read_eof"}

\* Mutant: an end-of-stream read error is returned like any other.
GetExternalIpResultEofFails(outcome, b) ==
    IF outcome = "transport_error"
    THEN [ip |-> <<"Unable to determine external IP: %v ">>, failed |-> TRUE]
    ELSE [ip |-> TrimSpace(b), failed |-> outcome \in {"read_error", "read_eof"}]

\* GetExternalIp's pair of results, for an outcome of the request and the
\* bytes read from the body.
GetExternalIpResult(outcome, b) ==
    IF outcome = "transport_error"
    THEN [ip |-> <<"Unable to determine external IP: %v ">>, failed |-> TRUE]
    ELSE [ip |-> TrimSpace(b), failed |-> outcome = "read_error"]

\* Mutant: only the first resolved address is compared.
MatchesFirstOnly(ips, ip) == ips # Empty /\ ips[1] = ip

\* The loop over hostnameIPs in updateIP.
Matches(ips, ip) == \E i \in 1..Len(ips) : ips[i] = ip

\* Mutant: the two arguments of the format are swapped.
ReqstrSwapped(hostname, ip) ==
    <<"https://">> \o ddns_service \o <<"/nic/update?hostname=">>
        \o ip \o <<"&myip=">> \o hostname

\* fmt.Sprintf("https://%v/nic/update?hostname=%v&myip=%v", ...)
Reqstr(hostname, ip) ==
    <<"https://">> \o ddns_service \o <<"/nic/update?hostname=">>
        \o hostname \o <<"&myip=">> \o ip

\* What the update request can do; a response carries its status code.
UpdateOutcomes ==
    {"request_error", "transport_error", "read_error", "status_200",
     "status_401", "status_500"}

\* Mutant: a status other than 200 is an error.
UpdateDDNSRecordFailsOnStatus(outcome) == outcome # "status_200"

\* Whether UpdateDDNSRecord returns an error.
UpdateDDNSRecordFails(outcome) ==
    outcome \in {"request_error", "transport_error", "read_error"}

\* The position updateIP is entered at.
EnterUpdateIP(cfg) == IF NoDynDns(cfg) THEN "return" ELSE "GetExternalIp"

\* ------------------------------------------------------------------ Init
Init ==
    /\ config_obj \in Configs
    /\ ctxDone = FALSE
    /\ wg = 0
    /\ starter = "init"
    /\ result = NoService
    /\ pc = "idle"
    /\ min_update_wait = 0
    /\ body = None
    /\ externalIP = None
    /\ hostnameIPs = None
    /\ err = "nil"
    /\ calls = << >>
    /\ response = "none"
    /\ waited = 0
    /\ sinceStart = 0
    /\ took = 0
    /\ sinceUpdate = -1
    /\ cancelledAt = "never"
    /\ ncycles = 0
    /\ nwaits = 0
    /\ lastCycle = "none"

taskVars == <<pc, min_update_wait, body, externalIP, hostnameIPs, err, calls,
              response, waited, sinceStart, took, sinceUpdate, ncycles, nwaits,
              lastCycle>>
cycleVars == <<body, externalIP, hostnameIPs, err, calls, response>>
clockVars == <<sinceStart, took>>

\* ------------------------------------------------------- the environment
\* The part of the goroutine's life a position belongs to.
CancelPoint ==
    IF pc \in {"idle", "Start"} THEN "before the loop"
    ELSE IF pc = "select" THEN "select"
    ELSE IF pc \in {"exit", "done"} THEN "after the loop"
    ELSE "cycle"

\* The parent context is cancelled.
Cancel ==
    /\ ~ctxDone
    /\ ctxDone' = TRUE
    /\ cancelledAt' = CancelPoint
    /\ UNCHANGED <<config_obj, wg, starter, result, taskVars>>

\* One second passes.  The clocks are read only for a cycle and the select
\* after it.  A cycle's calls take up to MaxCycleTime seconds.  A goroutine
\* in the select runs within the second in which one of its cases becomes
\* ready, so no further second passes once the context is cancelled or the
\* timer has expired.
Tick ==
    /\ \/ /\ pc \in {"GetExternalIp", "GetCurrentDDNSIp", "UpdateDDNSRecord"}
          /\ sinceStart < MaxCycleTime
          /\ UNCHANGED waited
       \/ /\ pc = "select"
          /\ ~ctxDone
          /\ waited < min_update_wait
          /\ waited' = waited + 1
    /\ sinceStart' = sinceStart + 1
    /\ sinceUpdate' = IF sinceUpdate \in 0..(min_update_wait - 1)
                      THEN sinceUpdate + 1 ELSE sinceUpdate
    /\ UNCHANGED <<config_obj, ctxDone, cancelledAt, wg, starter, result, pc,
                   min_update_wait, cycleVars, took, ncycles, nwaits, lastCycle>>

\* ---------------------------------------------------- StartDynDNSService
\* The configuration check and the construction of the service.
StartDynDNSService ==
    /\ starter = "init"
    /\ IF NotConfigured(config_obj)
       THEN /\ starter' = "returned"
            /\ UNCHANGED result
       ELSE /\ starter' = "wg.Add"
            /\ result' = NewService(config_obj)
    /\ UNCHANGED <<config_obj, ctxDone, cancelledAt, wg, taskVars>>

\* Mutant: the wait group is not raised.
WgAddMissing ==
    /\ starter = "wg.Add"
    /\ starter' = "go"
    /\ UNCHANGED <<config_obj, ctxDone, cancelledAt, wg, result, taskVars>>

WgAdd ==
    /\ starter = "wg.Add"
    /\ wg' = wg + 1
    /\ starter' = "go"
    /\ UNCHANGED <<config_obj, ctxDone, cancelledAt, result, taskVars>>

\* The go statement: the goroutine exists and will call result.Start.
GoFunc ==
    /\ starter = "go"
    /\ pc = "idle"
    /\ pc' = "Start"
    /\ starter' = "return"
    /\ UNCHANGED <<config_obj, ctxDone, cancelledAt, wg, result, min_update_wait,
                   cycleVars, waited, clockVars, sinceUpdate, ncycles,
                   nwaits, lastCycle>>

StarterReturn ==
    /\ starter = "return"
    /\ starter' = "returned"
    /\ UNCHANGED <<config_obj, ctxDone, cancelledAt, wg, result, taskVars>>

\* Mutant: Start returns at once when the context is already cancelled.
StartChecksCtx ==
    /\ pc = "Start"
    /\ IF NoDynDns(config_obj) \/ ctxDone
       THEN /\ pc' = "exit"
            /\ UNCHANGED <<min_update_wait, ncycles>>
       ELSE /\ min_update_wait' = MinUpdateWait(config_obj.Frequency)
            /\ pc' = EnterUpdateIP(config_obj)
            /\ ncycles' = Inc(ncycles)
    /\ UNCHANGED <<config_obj, ctxDone, cancelledAt, wg, starter, result, cycleVars,
                   waited, clockVars, sinceUpdate, nwaits, lastCycle>>

\* Mutant: Start enters the select before its first call of updateIP.
StartWaitsFirst ==
    /\ pc = "Start"
    /\ min_update_wait' = MinUpdateWait(config_obj.Frequency)
    /\ pc' = "select"
    /\ UNCHANGED <<config_obj, ctxDone, cancelledAt, wg, starter, result, cycleVars,
                   waited, clockVars, sinceUpdate, ncycles,
                   nwaits, lastCycle>>

\* ----------------------------------------------------------------- Start
\* Start up to its first call of updateIP.
Start ==
    /\ pc = "Start"
    /\ IF NoDynDns(config_obj)
       THEN /\ pc' = "exit"
            /\ UNCHANGED <<min_update_wait, ncycles>>
       ELSE /\ min_update_wait' = MinUpdateWait(config_obj.Frequency)
            /\ pc' = EnterUpdateIP(config_obj)
            /\ ncycles' = Inc(ncycles)
    /\ UNCHANGED <<config_obj, ctxDone, cancelledAt, wg, starter, result, cycleVars,
                   waited, clockVars, sinceUpdate, nwaits, lastCycle>>

\* Mutant: the error of GetExternalIp is logged and the cycle goes on.
GetExternalIpGoesOn(outcome, b) ==
    /\ pc = "GetExternalIp"
    /\ response' = outcome
    /\ calls' = Append(calls, HttpGet(result.external_ip_url))
    /\ LET r == GetExternalIpResult(outcome, b) IN
         /\ err' = IF r.failed THEN "GetExternalIp" ELSE "nil"
         /\ body' = b
         /\ externalIP' = r.ip
         /\ pc' = "GetCurrentDDNSIp"
    /\ UNCHANGED <<config_obj, ctxDone, cancelledAt, wg, starter, result,
                   min_update_wait, hostnameIPs, waited, clockVars, sinceUpdate, ncycles,
                   nwaits, lastCycle>>

\* updateIP's call of GetExternalIp and the check of its error.
GetExternalIp(outcome, b) ==
    /\ pc = "GetExternalIp"
    /\ response' = outcome
    /\ calls' = Append(calls, HttpGet(result.external_ip_url))
    /\ LET r == GetExternalIpResult(outcome, b) IN
         IF r.failed
         THEN /\ err' = "GetExternalIp"
              /\ pc' = "return"
              /\ UNCHANGED <<body, externalIP>>
         ELSE /\ err' = "nil"
              /\ body' = b
              /\ externalIP' = r.ip
              /\ pc' = "GetCurrentDDNSIp"
    /\ UNCHANGED <<config_obj, ctxDone, cancelledAt, wg, starter, result,
                   min_update_wait,
                   hostnameIPs, waited, clockVars, sinceUpdate, ncycles,
                   nwaits, lastCycle>>

\* Mutant: a resolver error ends Start instead of the cycle.
GetCurrentDDNSIpFatal(failed, ips) ==
    /\ pc = "GetCurrentDDNSIp"
    /\ response' = IF failed THEN "lookup_error" ELSE "ok"
    /\ calls' = Append(calls, LookupHost(result.dns_server, config_obj.Hostname))
    /\ IF failed
       THEN /\ err' = "GetCurrentDDNSIp"
            /\ pc' = "exit"
            /\ UNCHANGED hostnameIPs
       ELSE /\ err' = "nil"
            /\ hostnameIPs' = ips
            /\ pc' = IF Matches(ips, externalIP)
                     THEN "return" ELSE "UpdateDDNSRecord"
    /\ UNCHANGED <<config_obj, ctxDone, cancelledAt, wg, starter, result,
                   min_update_wait,
                   body, externalIP, waited, clockVars, sinceUpdate, ncycles,
                   nwaits, lastCycle>>

\* Mutant: a cycle that follows an update does not update again.
GetCurrentDDNSIpRemembersUpdate(failed, ips) ==
    /\ pc = "GetCurrentDDNSIp"
    /\ response' = IF failed THEN "lookup_error" ELSE "ok"
    /\ calls' = Append(calls, LookupHost(result.dns_server, config_obj.Hostname))
    /\ IF failed
       THEN /\ err' = "GetCurrentDDNSIp"
            /\ pc' = "return"
            /\ UNCHANGED hostnameIPs
       ELSE /\ err' = "nil"
            /\ hostnameIPs' = ips
            /\ pc' = IF Matches(ips, externalIP) \/ lastCycle = "updated"
                     THEN "return" ELSE "UpdateDDNSRecord"
    /\ UNCHANGED <<config_obj, ctxDone, cancelledAt, wg, starter, result,
                   min_update_wait, body, externalIP, waited, clockVars, sinceUpdate,
                   ncycles, nwaits, lastCycle>>

\* Mutant: the lookup runs under the parent context, so a cancelled context
\* fails it before it is sent.
GetCurrentDDNSIpParentCtx(failed, ips) ==
    /\ pc = "GetCurrentDDNSIp"
    /\ response' = IF failed \/ ctxDone THEN "lookup_error" ELSE "ok"
    /\ IF ctxDone
       THEN /\ err' = "GetCurrentDDNSIp"
            /\ pc' = "return"
            /\ UNCHANGED <<hostnameIPs, calls>>
       ELSE /\ calls' = Append(calls, LookupHost(result.dns_server,
                                                 config_obj.Hostname))
            /\ IF failed
               THEN /\ err' = "GetCurrentDDNSIp"
                    /\ pc' = "return"
                    /\ UNCHANGED hostnameIPs
               ELSE /\ err' = "nil"
                    /\ hostnameIPs' = ips
                    /\ pc' = IF Matches(ips, externalIP)
                             THEN "return" ELSE "UpdateDDNSRecord"
    /\ UNCHANGED <<config_obj, ctxDone, cancelledAt, wg, starter, result,
                   min_update_wait, body, externalIP, waited, clockVars, sinceUpdate,
                   ncycles, nwaits, lastCycle>>

\* updateIP's call of GetCurrentDDNSIp, the check of its error and the
\* comparison loop.
GetCurrentDDNSIp(failed, ips) ==
    /\ pc = "GetCurrentDDNSIp"
    /\ response' = IF failed THEN "lookup_error" ELSE "ok"
    /\ calls' = Append(calls, LookupHost(result.dns_server, config_obj.Hostname))
    /\ IF failed
       THEN /\ err' = "GetCurrentDDNSIp"
            /\ pc' = "return"
            /\ UNCHANGED hostnameIPs
       ELSE /\ err' = "nil"
            /\ hostnameIPs' = ips
            /\ pc' = IF Matches(ips, externalIP)
                     THEN "return" ELSE "UpdateDDNSRecord"
    /\ UNCHANGED <<config_obj, ctxDone, cancelledAt, wg, starter, result,
                   min_update_wait,
                   body, externalIP, waited, clockVars, sinceUpdate, ncycles,
                   nwaits, lastCycle>>

\* Mutant: a failed update ends Start instead of the cycle.
UpdateDDNSRecordFatal(outcome) ==
    /\ pc = "UpdateDDNSRecord"
    /\ response' = outcome
    /\ sinceUpdate' = 0
    /\ calls' = Append(calls,
                       UpdateRequest(Reqstr(config_obj.Hostname, externalIP),
                                     config_obj.DdnsUsername,
                                     config_obj.DdnsPassword))
    /\ err' = IF UpdateDDNSRecordFails(outcome) THEN "UpdateDDNSRecord" ELSE "nil"
    /\ pc' = IF UpdateDDNSRecordFails(outcome) THEN "exit" ELSE "return"
    /\ UNCHANGED <<config_obj, ctxDone, cancelledAt, wg, starter, result,
                   min_update_wait,
                   body, externalIP, hostnameIPs, waited, clockVars, ncycles,
                   nwaits,
                   lastCycle>>

\* Mutant: a failed update is tried again at once.
UpdateDDNSRecordRetries(outcome) ==
    /\ pc = "UpdateDDNSRecord"
    /\ response' = outcome
    /\ sinceUpdate' = 0
    /\ calls' = Append(calls,
                       UpdateRequest(Reqstr(config_obj.Hostname, externalIP),
                                     config_obj.DdnsUsername,
                                     config_obj.DdnsPassword))
    /\ err' = IF UpdateDDNSRecordFails(outcome) THEN "UpdateDDNSRecord" ELSE "nil"
    /\ pc' = IF UpdateDDNSRecordFails(outcome) THEN "UpdateDDNSRecord" ELSE "return"
    /\ UNCHANGED <<config_obj, ctxDone, cancelledAt, wg, starter, result,
                   min_update_wait, body, externalIP, hostnameIPs, waited,
                   clockVars, ncycles, nwaits, lastCycle>>

\* updateIP's call of UpdateDDNSRecord and the check of its error.
UpdateDDNSRecord(outcome) ==
    /\ pc = "UpdateDDNSRecord"
    /\ response' = outcome
    /\ sinceUpdate' = 0
    /\ calls' = Append(calls,
                       UpdateRequest(Reqstr(config_obj.Hostname, externalIP),
                                     config_obj.DdnsUsername,
                                     config_obj.DdnsPassword))
    /\ err' = IF UpdateDDNSRecordFails(outcome) THEN "UpdateDDNSRecord" ELSE "nil"
    /\ pc' = "return"
    /\ UNCHANGED <<config_obj, ctxDone, cancelledAt, wg, starter, result,
                   min_update_wait,
                   body, externalIP, hostnameIPs, waited, clockVars, ncycles,
                   nwaits,
                   lastCycle>>

\* How a cycle that stands at its return ended.
CycleResult ==
    IF err # "nil" THEN err
    ELSE IF hostnameIPs = None THEN "skipped"
    ELSE IF Matches(hostnameIPs, externalIP) THEN "match"
    ELSE "updated"

\* Mutant: the timer runs from the beginning of the cycle, as a ticker's
\* would.
ReturnTimerFromCycleStart ==
    /\ pc = "return"
    /\ lastCycle' = CycleResult
    /\ body' = None
    /\ externalIP' = None
    /\ hostnameIPs' = None
    /\ err' = "nil"
    /\ calls' = << >>
    /\ response' = "none"
    /\ waited' = IF sinceStart < min_update_wait
                 THEN sinceStart ELSE min_update_wait
    /\ took' = sinceStart
    /\ pc' = "select"
    /\ UNCHANGED <<config_obj, ctxDone, cancelledAt, wg, starter, result,
                   min_update_wait, sinceStart, sinceUpdate, ncycles, nwaits>>

\* updateIP returns to Start, which evaluates the select: time.After is
\* called and the goroutine waits.
Return ==
    /\ pc = "return"
    /\ lastCycle' = CycleResult
    /\ body' = None
    /\ externalIP' = None
    /\ hostnameIPs' = None
    /\ err' = "nil"
    /\ calls' = << >>
    /\ response' = "none"
    /\ waited' = 0
    /\ took' = sinceStart
    /\ pc' = "select"
    /\ UNCHANGED <<config_obj, ctxDone, cancelledAt, wg, starter, result,
                   min_update_wait, sinceStart, sinceUpdate, ncycles, nwaits>>

\* Mutant: the case leaves the select only, as a break would, and the loop
\* evaluates the select again.
SelectDoneBreaksSelect ==
    /\ pc = "select"
    /\ ctxDone
    /\ pc' = "select"
    /\ waited' = 0
    /\ took' = sinceStart
    /\ UNCHANGED <<config_obj, ctxDone, cancelledAt, wg, starter, result,
                   min_update_wait, cycleVars, sinceStart, sinceUpdate, ncycles,
                   nwaits, lastCycle>>

\* case <-ctx.Done(): return
\* A select with several ready cases takes any one of them, so SelectDone
\* and SelectTimer are both possible once both channels are ready.
SelectDone ==
    /\ pc = "select"
    /\ ctxDone
    /\ pc' = "exit"
    /\ waited' = 0
    /\ sinceStart' = 0
    /\ took' = 0
    /\ sinceUpdate' = -1
    /\ UNCHANGED <<config_obj, ctxDone, cancelledAt, wg, starter, result,
                   min_update_wait, cycleVars, ncycles, nwaits, lastCycle>>

\* case <-time.After(...): self.updateIP(config_obj)
SelectTimer ==
    /\ pc = "select"
    /\ waited >= min_update_wait
    /\ pc' = EnterUpdateIP(config_obj)
    /\ ncycles' = Inc(ncycles)
    /\ nwaits' = IF nwaits < MaxCycles - 1 THEN nwaits + 1 ELSE nwaits
    /\ waited' = 0
    /\ sinceStart' = 0
    /\ took' = 0
    /\ UNCHANGED <<config_obj, ctxDone, cancelledAt, wg, starter, result,
                   min_update_wait, cycleVars, sinceUpdate, lastCycle>>

\* The goroutine's deferred wg.Done(), after Start has returned.
WgDone ==
    /\ pc = "exit"
    /\ wg' = wg - 1
    /\ pc' = "done"
    /\ UNCHANGED <<config_obj, ctxDone, cancelledAt, starter, result,
                   min_update_wait,
                   cycleVars, waited, clockVars, sinceUpdate, ncycles,
                   nwaits, lastCycle>>

Next ==
    \/ Cancel
    \/ Tick
    \/ StartDynDNSService
    \/ WgAdd
    \/ GoFunc
    \/ StarterReturn
    \/ Start
    \/ \E o \in GetOutcomes, b \in Bodies : GetExternalIp(o, b)
    \/ \E f \in BOOLEAN, ips \in AddressLists : GetCurrentDDNSIp(f, ips)
    \/ \E o \in UpdateOutcomes : UpdateDDNSRecord(o)
    \/ Return
    \/ SelectDone
    \/ SelectTimer
    \/ WgDone

Spec == Init /\ [][Next]_vars

\* The goroutine and the clock are scheduled fairly; cancellation and the
\* starter's caller are not forced.
FairSpec ==
    /\ Spec
    /\ WF_vars(Tick)
    /\ WF_vars(Start)
    /\ WF_vars(\E o \in GetOutcomes, b \in Bodies : GetExternalIp(o, b))
    /\ WF_vars(\E f \in BOOLEAN, ips \in AddressLists : GetCurrentDDNSIp(f, ips))
    /\ WF_vars(\E o \in UpdateOutcomes : UpdateDDNSRecord(o))
    /\ WF_vars(Return)
    /\ WF_vars(SelectDone)
    /\ WF_vars(SelectTimer)
    /\ WF_vars(WgDone)

\* ------------------------------------------------------ shared vocabulary
InCycle == pc \in {"GetExternalIp", "GetCurrentDDNSIp", "UpdateDDNSRecord", "return"}
Running == pc \in {"Start", "select"} \/ InCycle
NoCallYet == pc = "idle" /\ calls = << >> /\ ncycles = 0
UpdateCalls == {i \in 1..Len(calls) : calls[i].op = "UpdateDDNSRecord"}
Resolved == hostnameIPs # None
Member == \E i \in 1..Len(hostnameIPs) : hostnameIPs[i] = externalIP
CycleFailures == {"GetExternalIp", "GetCurrentDDNSIp", "UpdateDDNSRecord"}

\* ----------------------------------------------------------------- C1
\* C1: with the hostname, the username or the password missing, starting
\* the service makes no network call, starts no loop (the wait group is
\* untouched, no goroutine exists) and returns at once.
C1_NoStartWithoutHostnameOrCredentials ==
    (\/ config_obj.Hostname = Empty
     \/ config_obj.DdnsUsername = Empty
     \/ config_obj.DdnsPassword = Empty)
        => NoCallYet /\ wg = 0 /\ starter \in {"init", "returned"}

\* ----------------------------------------------------------------- C2
\* C2: a cycle whose discovery and resolution succeed and whose external IP
\* equals one of the resolved addresses returns having made the discovery
\* and the resolver call and no update call, and goes on to the select.
C2_NoUpdateWhenMember ==
    [][(pc = "return" /\ Resolved /\ Member)
          => /\ UpdateCalls = {}
             /\ Len(calls) = 2
             /\ err = "nil"
             /\ pc' \in {"return", "select"}]_vars

C2_Witness ==
    /\ pc = "return"
    /\ Resolved
    /\ Len(hostnameIPs) = 2
    /\ hostnameIPs[1] # externalIP
    /\ hostnameIPs[2] = externalIP
    /\ UpdateCalls = {}

\* ----------------------------------------------------------------- C3
\* The external IP is the response body without the white space around it.
IsTrimOf(ip, b) ==
    /\ \E i \in 1..(Len(b) + 1), j \in 0..Len(b) :
          /\ ip = SubSeq(b, i, j)
          /\ \A k \in 1..(i - 1) : b[k] \in WhiteSpace
          /\ \A k \in (j + 1)..Len(b) : b[k] \in WhiteSpace
    /\ ip # Empty => ip[1] \notin WhiteSpace /\ ip[Len(ip)] \notin WhiteSpace

\* C3: a cycle whose discovery and resolution succeed and whose external IP
\* is none of the resolved addresses (an empty list included) returns having
\* made exactly one update call, to
\* https://domains.google.com/nic/update?hostname=<hostname>&myip=<ip>
\* with the configured username and password, <ip> being the trimmed body.
C3_OneUpdateWhenNotMember ==
    (pc = "return" /\ Resolved /\ ~Member)
        => /\ Cardinality(UpdateCalls) = 1
           /\ Len(calls) = 3
           /\ calls[3].op = "UpdateDDNSRecord"
           /\ calls[3].to =
                <<"https://", "domains.google.com", "/nic/update?hostname=">>
                    \o config_obj.Hostname \o <<"&myip=">> \o externalIP
           /\ calls[3].user = config_obj.DdnsUsername
           /\ calls[3].pw = config_obj.DdnsPassword
           /\ IsTrimOf(externalIP, body)

C3_Witness ==
    /\ pc = "return"
    /\ Resolved
    /\ ~Member
    /\ hostnameIPs = <<<<"1", "1">>>>
    /\ body = <<"\n", "1", "\n">>
    /\ externalIP = <<"1">>
    /\ Cardinality(UpdateCalls) = 1

\* ----------------------------------------------------------------- C4
\* C4: whatever the configured frequency, a cycle begun from the select
\* begins at least 60 seconds after the select's timer was created.
C4_AlwaysAtLeastSixtySeconds ==
    [][(pc = "select" /\ pc' = "GetExternalIp") => waited >= 60]_vars

\* ----------------------------------------------------------------- C5
\* C5: with a configured frequency of 0 the timer of every select runs for
\* 60 seconds, so a cycle begun from the select begins at least 60 seconds
\* after the cycle before it ended.
C5_ZeroFrequencyWaitsSixty ==
    [][(config_obj.Frequency = 0 /\ pc = "select")
          => /\ min_update_wait = 60
             /\ pc' = "GetExternalIp" => waited >= 60
             /\ (waited >= 60) = ENABLED SelectTimer]_vars

C5_Witness ==
    /\ config_obj.Frequency = 0
    /\ pc = "GetExternalIp"
    /\ nwaits = 1
    /\ ncycles = 2

\* ----------------------------------------------------------------- C6
\* C6: once the context is cancelled and the goroutine stands in the
\* select, it starts no further cycle: it stays or leaves the loop, also
\* when the timer has expired.
C6_NoCycleAfterCancel ==
    [][(pc = "select" /\ ctxDone) => pc' \in {"select", "exit"}]_vars

\* ----------------------------------------------------------------- C7
\* C7: a cycle that fails in discovery or resolution goes on to the select,
\* never out of the loop; the cycle after it begins no sooner than one
\* interval later, and unless the context is cancelled it does begin.
C7_FailedCycleIsFollowedByNext ==
    /\ [][(InCycle /\ err' \in {"GetExternalIp", "GetCurrentDDNSIp"})
             => pc' \in {"return", "select"}]_vars
    /\ [][(pc = "select" /\ lastCycle \in {"GetExternalIp", "GetCurrentDDNSIp"}
              /\ pc' # "select")
             => \/ pc' = "GetExternalIp" /\ waited >= min_update_wait
                \/ pc' = "exit" /\ ctxDone]_vars
    /\ (pc = "return" /\ err \in {"GetExternalIp", "GetCurrentDDNSIp"})
          ~> (pc = "GetExternalIp" \/ ctxDone)

C7_Witness ==
    /\ pc = "GetExternalIp"
    /\ lastCycle \in {"GetExternalIp", "GetCurrentDDNSIp"}
    /\ ~ctxDone

\* ----------------------------------------------------------------- C8
\* C8: the goroutine has left the loop only if the context is cancelled.
C8_ExitOnlyByCancel ==
    pc \in {"exit", "done"} => ctxDone

C8_Witness ==
    /\ pc = "exit"
    /\ lastCycle \in CycleFailures
    /\ nwaits >= 1

\* ----------------------------------------------------------------- C9
\* C9: the first cycle begins straight from Start, before any select; every
\* later cycle begins from a select whose timer has run its full interval.
C9_FirstCycleImmediateThenTimer ==
    /\ [][pc = "Start" => pc' \in {"Start", "GetExternalIp"}]_vars
    /\ [][(pc # "GetExternalIp" /\ pc' = "GetExternalIp")
             => \/ pc = "Start" /\ ncycles = 0 /\ nwaits = 0
                \/ /\ pc = "select"
                   /\ ncycles >= 1
                   /\ waited >= min_update_wait
                   /\ min_update_wait > 0]_vars

C9_Witness ==
    /\ pc = "GetExternalIp"
    /\ ncycles = 2
    /\ nwaits = 1
    /\ lastCycle = "match"

\* ---------------------------------------------------------------- C10
\* C10: the wait group is raised to 1 before the goroutine exists, stays 1
\* for as long as the goroutine can still act and drops to 0 only after
\* Start has returned; the starter's return never waits for the goroutine.
C10_WaitGroupCoversTheLoop ==
    /\ wg \in {0, 1}
    /\ starter = "go" => wg = 1 /\ pc = "idle"
    /\ (Running \/ pc = "exit") => wg = 1
    /\ pc = "done" => wg = 0
    /\ (wg = 0 /\ starter \in {"return", "returned"}) => pc \in {"idle", "done"}
    /\ pc = "idle" => starter # "return"
    /\ starter = "return" => ENABLED StarterReturn

C10_Witness ==
    /\ starter = "returned"
    /\ pc = "GetCurrentDDNSIp"
    /\ wg = 1

\* ---------------------------------------------------------------- C11
\* C11: a cycle begins only when none is in progress; the select's timer is
\* created at the return of the cycle and not before, none runs during a
\* cycle; so a cycle begun from the select begins one interval plus the
\* duration of the cycle before it after that cycle began.
C11_CyclesSequentialTimerAfterCycle ==
    /\ [][(pc # "GetExternalIp" /\ pc' = "GetExternalIp")
             => pc \in {"Start", "select"} /\ calls = << >> /\ body = None]_vars
    /\ [][(pc # "select" /\ pc' = "select")
             => pc = "return" /\ waited' = 0 /\ took' = sinceStart]_vars
    /\ [][(pc = "select" /\ pc' = "GetExternalIp")
             => sinceStart = took + (IF config_obj.Frequency = 0
                                     THEN 60 ELSE config_obj.Frequency)]_vars
    /\ [](InCycle => waited = 0)

C11_Witness ==
    /\ pc = "select"
    /\ took = MaxCycleTime
    /\ took > 0
    /\ waited = min_update_wait
    /\ sinceStart = took + waited
    /\ ENABLED SelectTimer

\* ---------------------------------------------------------------- C12
CallOrder == <<"GetExternalIp", "GetCurrentDDNSIp", "UpdateDDNSRecord">>

\* C12: the calls of a cycle are discovery, resolver, update in that order,
\* each at most once; the resolver is called only after a discovery without
\* error and the update only after a resolution without error, so a cycle
\* that failed in discovery made one call and one that failed in resolution
\* made two.
C12_CallOrderAndEarlyAbandon ==
    /\ Len(calls) <= 3
    /\ \A i \in 1..Len(calls) : calls[i].op = CallOrder[i]
    /\ ~InCycle => calls = << >>
    /\ pc = "GetExternalIp" => calls = << >>
    /\ pc = "GetCurrentDDNSIp" => Len(calls) = 1 /\ err = "nil"
    /\ pc = "UpdateDDNSRecord" => Len(calls) = 2 /\ err = "nil" /\ Resolved
    /\ (pc = "return" /\ err = "GetExternalIp")
          => Len(calls) = 1 /\ externalIP = None /\ ~Resolved
    /\ (pc = "return" /\ err = "GetCurrentDDNSIp") => Len(calls) = 2 /\ ~Resolved
    /\ (pc = "return" /\ err = "UpdateDDNSRecord") => Len(calls) = 3

C12_Witness ==
    /\ pc = "return"
    /\ err = "GetCurrentDDNSIp"
    /\ Len(calls) = 2
    /\ calls[2].op = "GetCurrentDDNSIp"

\* ---------------------------------------------------------------- C13
\* C13: the goroutine leaves the loop only from the select.  A context
\* cancelled during a cycle does not end the cycle: the resolver call and,
\* when the addresses differ, the update call are still made; the select
\* after the cycle then takes the cancellation and the loop is left.
C13_CancelSeenOnlyAtSelect ==
    /\ [][(pc # "exit" /\ pc' = "exit") => pc = "select" /\ ctxDone]_vars
    /\ [][(InCycle /\ ctxDone) => (InCycle' \/ pc' = "select")]_vars
    /\ [][(pc = "GetCurrentDDNSIp" /\ ctxDone /\ pc' # pc)
             => Len(calls') = 2 /\ calls'[2].op = "GetCurrentDDNSIp"]_vars
    /\ [][(pc = "UpdateDDNSRecord" /\ ctxDone /\ pc' # pc)
             => Len(calls') = 3 /\ calls'[3].op = "UpdateDDNSRecord"]_vars
    /\ []((pc = "return" /\ cancelledAt = "cycle" /\ Resolved /\ ~Member)
             => Len(calls) = 3)
    /\ [][(pc = "select" /\ cancelledAt = "cycle")
             => (pc' = "select" \/ pc' = "exit")]_vars
    /\ []((pc = "select" /\ cancelledAt = "cycle") => ENABLED SelectDone)

C13_Witness ==
    /\ pc = "exit"
    /\ cancelledAt = "cycle"
    /\ lastCycle = "updated"

\* ---------------------------------------------------------------- C14
\* C14: a cycle begins with nothing kept from the cycle before it, makes its
\* own discovery call and, after a successful discovery, its own resolver
\* call, and has made an update call at its return exactly when its own
\* resolution succeeded and its own external IP is none of the addresses it
\* resolved, however the cycle before it ended.
C14_CyclesAreStateless ==
    /\ pc = "GetExternalIp"
          => /\ body = None /\ externalIP = None /\ hostnameIPs = None
             /\ err = "nil" /\ calls = << >>
    /\ pc \in {"GetCurrentDDNSIp", "UpdateDDNSRecord"}
          => calls[1] = HttpGet(result.external_ip_url) /\ externalIP # None
    /\ pc = "UpdateDDNSRecord"
          => calls[2] = LookupHost(result.dns_server, config_obj.Hostname)
    /\ pc = "return"
          => /\ lastCycle \in {"none", "match", "updated"} \cup CycleFailures
             /\ (UpdateCalls # {}) = (Resolved /\ ~Member)

C14_Witness ==
    /\ pc = "return"
    /\ lastCycle \in {"updated", "UpdateDDNSRecord"}
    /\ Resolved
    /\ ~Member
    /\ UpdateCalls = {3}

\* ---------------------------------------------------------------- C15
StatusResponses == {"status_200", "status_401", "status_500"}
StepFailures == {"request_error", "transport_error", "read_error"}

\* C15: a cycle that called UpdateDDNSRecord returns with its error set
\* exactly when the request could not be built, could not be sent or its
\* body could not be read; a response of any status, 401 and 500 included,
\* leaves no error; the cycle made the call once whatever came of it.
C15_UpdateIgnoresStatusNoRetry ==
    (pc = "return" /\ UpdateCalls # {})
        => /\ response \in StatusResponses \cup StepFailures
           /\ (err = "UpdateDDNSRecord") = (response \in StepFailures)
           /\ response \in StatusResponses => err = "nil"
           /\ UpdateCalls = {3}
           /\ Len(calls) = 3

C15_Witness ==
    /\ pc = "return"
    /\ UpdateCalls = {3}
    /\ response = "status_500"
    /\ err = "nil"

\* ---------------------------------------------------------------- C16
\* C16: a cycle stands at the resolver call only after a discovery that
\* read its body to the end, with or without an end-of-stream error, and
\* then holds the trimmed body and no error; a cycle that returned after
\* the discovery call alone met a transport error or another read error;
\* and every body, address or not, is carried to the resolver call.
C16_DiscoveryErrorsAndEof ==
    /\ pc = "GetCurrentDDNSIp"
          => /\ response \in {"ok", "read_eof"}
             /\ err = "nil"
             /\ IsTrimOf(externalIP, body)
             /\ Len(calls) = 1
    /\ (pc = "return" /\ Len(calls) = 1)
          => /\ response \in {"transport_error", "read_error"}
             /\ err = "GetExternalIp"
    /\ pc = "GetExternalIp"
          => \A b \in Bodies, o \in {"ok", "read_eof"} :
                ENABLED (/\ GetExternalIp(o, b)
                         /\ pc' = "GetCurrentDDNSIp"
                         /\ externalIP' = TrimSpace(b))

C16_Witness ==
    /\ pc = "GetCurrentDDNSIp"
    /\ response = "read_eof"
    /\ body = <<"1", "\n", "1">>
    /\ externalIP = <<"1", "\n", "1">>
    /\ err = "nil"

\* ---------------------------------------------------------------- C17
ExpectedCheckipUrl ==
    IF config_obj.CheckipUrl = << >>
    THEN <<"https://domains.google.com/checkip">> ELSE config_obj.CheckipUrl
ExpectedDnsServer ==
    IF config_obj.DnsServer = << >>
    THEN <<"8.8.8.8:53">> ELSE config_obj.DnsServer

\* C17: every discovery call goes to the configured check-IP URL, or to
\* https://domains.google.com/checkip when none is configured; every lookup
\* dials the configured DNS server, or 8.8.8.8:53 when none is configured,
\* over UDP; the service's two endpoints never change once it is built.
C17_EndpointDefaultsAndConstancy ==
    /\ [](\A i \in 1..Len(calls) :
             /\ calls[i].op = "GetExternalIp" => calls[i].to = ExpectedCheckipUrl
             /\ calls[i].op = "GetCurrentDDNSIp"
                   => calls[i].to = ExpectedDnsServer /\ calls[i].net = "udp")
    /\ [](result # NoService
             => /\ result.external_ip_url = ExpectedCheckipUrl
                /\ result.dns_server = ExpectedDnsServer)
    /\ [][result # NoService => result' = result]_vars
    /\ [][config_obj' = config_obj]_vars

C17_Witness ==
    /\ config_obj.CheckipUrl = << >>
    /\ config_obj.DnsServer = <<"9.9.9.9:53">>
    /\ nwaits >= 1
    /\ Len(calls) >= 2
    /\ calls[1].to = <<"https://domains.google.com/checkip">>
    /\ calls[2].to = <<"9.9.9.9:53">>

\* ---------------------------------------------------------------- C18
EffectiveInterval ==
    IF config_obj.Frequency = 0 THEN 60 ELSE config_obj.Frequency

\* C18: a cycle makes at most one update call, and a cycle that stands at
\* its update call after an earlier update call stands there at least the
\* effective interval after that call.
C18_UpdatesOneIntervalApart ==
    /\ Cardinality(UpdateCalls) <= 1
    /\ (pc = "UpdateDDNSRecord" /\ sinceUpdate # -1)
          => sinceUpdate >= EffectiveInterval

C18_Witness ==
    /\ pc = "UpdateDDNSRecord"
    /\ config_obj.Frequency = 0
    /\ sinceUpdate = 60
    /\ lastCycle = "updated"

\* ---------------------------------------------------------------- C19
\* C19: once the context is cancelled and the goroutine exists, the
\* goroutine leaves the loop and the wait group returns to 0.
C19_CancelLeadsToDone ==
    (ctxDone /\ pc # "idle") ~> (pc = "done" /\ wg = 0)

C19_Witness ==
    /\ pc = "done"
    /\ wg = 0
    /\ cancelledAt = "select"
    /\ nwaits >= 1

\* ---------------------------------------------------------------- C20
CancelledBeforeLoop == cancelledAt = "before the loop"

\* C20: with the context cancelled before Start reaches its loop, Start
\* still makes its first call of updateIP, whose calls are all made as in
\* any cycle; the select after it waits no second, takes the cancellation
\* and the loop is left with exactly that one cycle run.
C20_FirstCycleRunsUnderCancel ==
    /\ [][(pc = "Start" /\ ctxDone /\ pc' # pc)
             => pc' = "GetExternalIp" /\ ncycles' = 1]_vars
    /\ [][(CancelledBeforeLoop /\ InCycle /\ pc # "return" /\ pc' # pc)
             => /\ Len(calls') = Len(calls) + 1
                /\ calls'[Len(calls')].op = pc
                /\ InCycle']_vars
    /\ []((CancelledBeforeLoop /\ pc = "return" /\ err = "nil")
             => Resolved /\ Len(calls) = IF Member THEN 2 ELSE 3)
    /\ [](CancelledBeforeLoop => nwaits = 0 /\ ncycles <= 1)
    /\ []((CancelledBeforeLoop /\ pc = "select")
             => waited = 0 /\ ENABLED SelectDone /\ ~ENABLED SelectTimer)
    /\ []((CancelledBeforeLoop /\ pc \in {"select", "exit", "done"})
             => /\ ncycles = 1
                /\ lastCycle \in {"match", "updated"} \cup CycleFailures)

C20_Witness ==
    /\ CancelledBeforeLoop
    /\ pc = "done"
    /\ ncycles = 1
    /\ lastCycle = "updated"

====
